---- MODULE Spec2Model ----
(***************************************************************************)
(* Model of the price/stock synchronisation scripts seller.py (Ozon) and   *)
(* market.py (Yandex Market).                                              *)
(*                                                                         *)
(* Text is modelled as a sequence of one-character strings, so that        *)
(* str(), int() and price_conversion() are computed character by           *)
(* character.  A spreadsheet cell is [int |-> n] (a numeric cell),         *)
(* [str |-> <<...>>] (a text cell) or [none |-> TRUE] (dict.get of a       *)
(* missing column).                                                        *)
(*                                                                         *)
(* market.py is modelled function by function as its statements read.     *)
(* The docstring of market.update_price (line 94) is indented by five      *)
(* columns and its body by four; update_price is reached by no run of      *)
(* market.main (see MarketMainUploadPrices).                               *)
(***************************************************************************)
EXTENDS Integers, Sequences, FiniteSets, TLC

VARIABLES
    prog,            \* which routine is running
    pc,              \* its control point
    feed,            \* the remote spreadsheet (what download_stock would parse)
    watch_remnants,  \* the parsed inventory records held by the routine
    listed,          \* the offer ids as the offer listing returned them
    offer_ids,       \* the routine's offer-id list (create_stocks removes from it)
    stocks,          \* the stock payload
    prices,          \* the price payload
    batches,         \* list(divide(payload, n)) being uploaded, and the limit n
    calls,           \* every HTTP request issued so far, in order
    product_list,    \* get_offer_ids: the items accumulated so far
    cursor,          \* get_offer_ids: page / last_id
    campaign,        \* the campaign (account) being synchronised
    server,          \* per campaign, the pages the marketplace answers with, in order
    err              \* the exception that ended the routine, "none" if none

vars == <<prog, pc, feed, watch_remnants, listed, offer_ids, stocks, prices,
          batches, calls, product_list, cursor, campaign, server, err>>

----------------------------------------------------------------------------
(* Bounds of the model *)

MaxRemnants == 2
MaxOffers == 2
MaxPayload == 4
MaxBatch == 3
MaxPages == 2
MaxPageItems == 1

----------------------------------------------------------------------------
(* Python primitives *)

Digit == <<"0", "1", "2", "3", "4", "5", "6", "7", "8", "9">>

IsDigit(c) == \E d \in 1..10 : Digit[d] = c

DigitVal(c) == (CHOOSE d \in 1..10 : Digit[d] = c) - 1

\* the blank is the only whitespace character of the inputs
IsSpace(c) == c = " "

RECURSIVE NatToStr(_)
NatToStr(n) ==
    IF n < 10 THEN <<Digit[n + 1]>>
    ELSE NatToStr(n \div 10) \o <<Digit[(n % 10) + 1]>>

\* str(x) of a cell
PyStr(x) ==
    IF "int" \in DOMAIN x
    THEN IF x.int < 0 THEN <<"-">> \o NatToStr(-x.int) ELSE NatToStr(x.int)
    ELSE IF "none" \in DOMAIN x THEN <<"N", "o", "n", "e">>
    ELSE x.str

RECURSIVE LStrip(_)
LStrip(s) == IF s # <<>> /\ IsSpace(Head(s)) THEN LStrip(Tail(s)) ELSE s

RECURSIVE RStrip(_)
RStrip(s) ==
    IF s # <<>> /\ IsSpace(s[Len(s)]) THEN RStrip(SubSeq(s, 1, Len(s) - 1)) ELSE s

RECURSIVE DigitsValue(_, _)
DigitsValue(s, acc) ==
    IF s = <<>> THEN acc ELSE DigitsValue(Tail(s), 10 * acc + DigitVal(Head(s)))

\* int(x) of a cell: the value, or the exception int() raises
PyInt(x) ==
    IF "int" \in DOMAIN x THEN [err |-> "none", val |-> x.int]
    ELSE IF "none" \in DOMAIN x THEN [err |-> "TypeError", val |-> 0]
    ELSE LET t == RStrip(LStrip(x.str))
             signed == t # <<>> /\ Head(t) \in {"+", "-"}
             body == IF signed THEN Tail(t) ELSE t
         IN  IF body # <<>> /\ \A i \in 1..Len(body) : IsDigit(body[i])
             THEN [err |-> "none",
                   val |-> IF signed /\ Head(t) = "-"
                           THEN -DigitsValue(body, 0) ELSE DigitsValue(body, 0)]
             ELSE [err |-> "ValueError", val |-> 0]

\* x in lst
InList(x, lst) == \E i \in 1..Len(lst) : lst[i] = x

\* lst.remove(x): drops the first occurrence (x is in lst at every call site)
ListRemove(lst, x) ==
    LET i == CHOOSE k \in 1..Len(lst) :
                 lst[k] = x /\ \A j \in 1..(k - 1) : lst[j] # x
    IN  SubSeq(lst, 1, i - 1) \o SubSeq(lst, i + 1, Len(lst))

----------------------------------------------------------------------------
(* seller.py: pure functions *)

\* price.split(".")[0]
RECURSIVE BeforeFirstDot(_)
BeforeFirstDot(s) ==
    IF s = <<>> \/ Head(s) = "." THEN <<>>
    ELSE <<Head(s)>> \o BeforeFirstDot(Tail(s))

\* re.sub("[^0-9]", "", s)
RECURSIVE OnlyDigits(_)
OnlyDigits(s) ==
    IF s = <<>> THEN <<>>
    ELSE (IF IsDigit(Head(s)) THEN <<Head(s)>> ELSE <<>>) \o OnlyDigits(Tail(s))

\* price_conversion without the split on "."
price_conversion_without_split(price) ==
    IF "str" \in DOMAIN price
    THEN [err |-> "none", val |-> OnlyDigits(price.str)]
    ELSE [err |-> "AttributeError", val |-> <<>>]

price_conversion(price) ==
    IF "str" \in DOMAIN price
    THEN [err |-> "none", val |-> OnlyDigits(BeforeFirstDot(price.str))]
    ELSE [err |-> "AttributeError", val |-> <<>>]

\* range(0, length, n), as the list of its values
RECURSIVE RangeFrom(_, _, _)
RangeFrom(i, length, n) ==
    IF i >= length THEN <<>> ELSE <<i>> \o RangeFrom(i + n, length, n)

\* lst[i : j] for 0 <= i <= j
Slice(lst, i, j) ==
    SubSeq(lst, i + 1, IF j < Len(lst) THEN j ELSE Len(lst))

\* divide with each slice one element short
divide_short_slices(lst, n) ==
    LET starts == RangeFrom(0, Len(lst), n)
    IN  [k \in 1..Len(starts) |-> Slice(lst, starts[k], starts[k] + n - 1)]

\* list(divide(lst, n))
divide(lst, n) ==
    LET starts == RangeFrom(0, Len(lst), n)
    IN  [k \in 1..Len(starts) |-> Slice(lst, starts[k], starts[k] + n)]

\* seller_stock without the "1" rule
seller_stock_without_one(watch) ==
    IF PyStr(watch.Kolichestvo) = <<">", "1", "0">>
    THEN [err |-> "none", val |-> 100]
    ELSE PyInt(watch.Kolichestvo)

\* the quantity rule of seller.create_stocks
seller_stock(watch) ==
    LET count == PyStr(watch.Kolichestvo)
    IN  IF count = <<">", "1", "0">> THEN [err |-> "none", val |-> 100]
        ELSE IF count = <<"1">> THEN [err |-> "none", val |-> 0]
        ELSE PyInt(watch.Kolichestvo)

\* the first loop of seller.create_stocks, from record i on
RECURSIVE seller_stocks_loop(_, _, _, _)
seller_stocks_loop(remnants, i, out, ids) ==
    IF i > Len(remnants) THEN [err |-> "none", out |-> out, ids |-> ids]
    ELSE LET watch == remnants[i]
             code == PyStr(watch.Kod)
         IN  IF InList(code, ids)
             THEN LET stock == seller_stock(watch)
                  IN  IF stock.err # "none"
                      THEN [err |-> stock.err, out |-> out, ids |-> ids]
                      ELSE seller_stocks_loop(
                               remnants, i + 1,
                               Append(out, [offer_id |-> code, stock |-> stock.val]),
                               ListRemove(ids, code))
             ELSE seller_stocks_loop(remnants, i + 1, out, ids)

\* seller_create_stocks without the second loop
seller_create_stocks_without_fill(remnants, ids) ==
    seller_stocks_loop(remnants, 1, <<>>, ids)

\* seller.create_stocks: the payload returned (out), the caller's list as the
\* call leaves it (ids), and the exception raised, if any
seller_create_stocks(remnants, ids) ==
    LET r == seller_stocks_loop(remnants, 1, <<>>, ids)
    IN  IF r.err # "none" THEN r
        ELSE [err |-> "none",
              out |-> r.out \o [k \in 1..Len(r.ids) |->
                                   [offer_id |-> r.ids[k], stock |-> 0]],
              ids |-> r.ids]

RECURSIVE seller_prices_loop(_, _, _, _)
seller_prices_loop(remnants, i, out, ids) ==
    IF i > Len(remnants) THEN [err |-> "none", out |-> out, ids |-> ids]
    ELSE LET watch == remnants[i]
             code == PyStr(watch.Kod)
         IN  IF InList(code, ids)
             THEN LET p == price_conversion(watch.Tsena)
                  IN  IF p.err # "none"
                      THEN [err |-> p.err, out |-> out, ids |-> ids]
                      ELSE seller_prices_loop(
                               remnants, i + 1,
                               Append(out, [auto_action_enabled |-> "UNKNOWN",
                                            currency_code |-> "RUB",
                                            offer_id |-> code,
                                            old_price |-> "0",
                                            price |-> p.val]),
                               ids)
             ELSE seller_prices_loop(remnants, i + 1, out, ids)

\* seller_prices_loop taking each matched id out of the list, as the loop of
\* create_stocks does
RECURSIVE seller_prices_loop_removing(_, _, _, _)
seller_prices_loop_removing(remnants, i, out, ids) ==
    IF i > Len(remnants) THEN [err |-> "none", out |-> out, ids |-> ids]
    ELSE LET watch == remnants[i]
             code == PyStr(watch.Kod)
         IN  IF InList(code, ids)
             THEN LET p == price_conversion(watch.Tsena)
                  IN  seller_prices_loop_removing(
                          remnants, i + 1,
                          Append(out, [auto_action_enabled |-> "UNKNOWN",
                                       currency_code |-> "RUB",
                                       offer_id |-> code,
                                       old_price |-> "0",
                                       price |-> p.val]),
                          ListRemove(ids, code))
             ELSE seller_prices_loop_removing(remnants, i + 1, out, ids)

seller_create_prices_removing(remnants, ids) ==
    seller_prices_loop_removing(remnants, 1, <<>>, ids)

seller_create_prices(remnants, ids) == seller_prices_loop(remnants, 1, <<>>, ids)

----------------------------------------------------------------------------
(* market.py: pure functions *)

\* market_stock with a quantity that is not numeric counted as 0
market_stock_lenient(watch) ==
    LET count == PyStr(watch.Kolichestvo)
        parsed == PyInt(watch.Kolichestvo)
    IN  IF count = <<">", "1", "0">> THEN [err |-> "none", val |-> 100]
        ELSE IF count = <<"1">> THEN [err |-> "none", val |-> 0]
        ELSE IF parsed.err # "none" THEN [err |-> "none", val |-> 0]
        ELSE parsed

\* the quantity rule of market.create_stocks
market_stock(watch) ==
    LET count == PyStr(watch.Kolichestvo)
    IN  IF count = <<">", "1", "0">> THEN [err |-> "none", val |-> 100]
        ELSE IF count = <<"1">> THEN [err |-> "none", val |-> 0]
        ELSE PyInt(watch.Kolichestvo)

market_stock_entry(sku, warehouse_id, count, date) ==
    [sku |-> sku, warehouseId |-> warehouse_id,
     items |-> <<[count |-> count, type |-> "FIT", updatedAt |-> date]>>]

RECURSIVE market_stocks_loop(_, _, _, _, _, _)
market_stocks_loop(remnants, i, out, ids, warehouse_id, date) ==
    IF i > Len(remnants) THEN [err |-> "none", out |-> out, ids |-> ids]
    ELSE LET watch == remnants[i]
             code == PyStr(watch.Kod)
         IN  IF InList(code, ids)
             THEN LET stock == market_stock(watch)
                  IN  IF stock.err # "none"
                      THEN [err |-> stock.err, out |-> out, ids |-> ids]
                      ELSE market_stocks_loop(
                               remnants, i + 1,
                               Append(out, market_stock_entry(
                                               code, warehouse_id, stock.val, date)),
                               ListRemove(ids, code), warehouse_id, date)
             ELSE market_stocks_loop(remnants, i + 1, out, ids, warehouse_id, date)

\* market.create_stocks; date is the UTC time read at line 174
market_create_stocks(remnants, ids, warehouse_id, date) ==
    LET r == market_stocks_loop(remnants, 1, <<>>, ids, warehouse_id, date)
    IN  IF r.err # "none" THEN r
        ELSE [err |-> "none",
              out |-> r.out \o [k \in 1..Len(r.ids) |->
                                   market_stock_entry(r.ids[k], warehouse_id, 0, date)],
              ids |-> r.ids]

RECURSIVE market_prices_loop(_, _, _, _)
market_prices_loop(remnants, i, out, ids) ==
    IF i > Len(remnants) THEN [err |-> "none", out |-> out, ids |-> ids]
    ELSE LET watch == remnants[i]
             code == PyStr(watch.Kod)
         IN  IF InList(code, ids)
             THEN LET p == price_conversion(watch.Tsena)
                      v == IF p.err # "none" THEN p ELSE PyInt([str |-> p.val])
                  IN  IF v.err # "none"
                      THEN [err |-> v.err, out |-> out, ids |-> ids]
                      ELSE market_prices_loop(
                               remnants, i + 1,
                               Append(out, [id |-> code,
                                            price |-> [value |-> v.val,
                                                       currencyId |-> "RUR"]]),
                               ids)
             ELSE market_prices_loop(remnants, i + 1, out, ids)

market_create_prices(remnants, ids) == market_prices_loop(remnants, 1, <<>>, ids)

----------------------------------------------------------------------------
(* Inputs of the bounded checks *)

A_ == <<"A">>
B_ == <<"B">>
Seven == <<"7">>

\* offer ids a marketplace may list
OfferIds == {A_, B_, Seven}

\* item codes of the spreadsheet: text cells and a numeric cell
Codes == {[str |-> A_], [int |-> 7]}

GT10 == <<">", "1", "0">>

\* quantity cells: the two sentinels, numeric cells, numeric text, malformed text
Quantities ==
    {[str |-> GT10], [str |-> <<"1">>], [int |-> 1], [int |-> 5],
     [str |-> <<"1", "2">>], [str |-> <<" ", "7">>], [str |-> <<"x">>]}

Price0 == [str |-> <<"5", "9", ".", "0", " ", "r">>]

\* all sequences over S of length at most n
BoundedSeq(S, n) == UNION {[1..k -> S] : k \in 0..n}

StockRecords == [Kod : Codes, Kolichestvo : Quantities, Tsena : {Price0}]

Warehouse == "WH"
Date == "T0"

----------------------------------------------------------------------------
(* create_stocks applied to bounded inputs *)

NoBatches == [list |-> <<>>, n |-> 0, next |-> 1]

Campaigns == {"FBS", "DBS", "OZON"}

NoServer == [c \in Campaigns |-> <<>>]

InitStocks ==
    /\ prog \in {"seller.create_stocks", "market.create_stocks"}
    /\ pc = "call"
    /\ feed = <<>>
    /\ watch_remnants \in BoundedSeq(StockRecords, MaxRemnants)
    /\ listed \in BoundedSeq(OfferIds, MaxOffers)
    /\ offer_ids = listed
    /\ stocks = <<>>
    /\ prices = <<>>
    /\ batches = NoBatches
    /\ calls = <<>>
    /\ product_list = <<>>
    /\ cursor = ""
    /\ campaign = "none"
    /\ server = NoServer
    /\ err = "none"

SellerCreateStocks ==
    /\ prog = "seller.create_stocks" /\ pc = "call"
    /\ LET r == seller_create_stocks(watch_remnants, offer_ids)
       IN  /\ offer_ids' = r.ids
           /\ stocks' = IF r.err = "none" THEN r.out ELSE stocks
           /\ err' = r.err
           /\ pc' = IF r.err = "none" THEN "returned" ELSE "raised"
    /\ UNCHANGED <<prog, feed, watch_remnants, listed, prices, batches, calls,
                   product_list, cursor, campaign, server>>

MarketCreateStocks ==
    /\ prog = "market.create_stocks" /\ pc = "call"
    /\ LET r == market_create_stocks(watch_remnants, offer_ids, Warehouse, Date)
       IN  /\ offer_ids' = r.ids
           /\ stocks' = IF r.err = "none" THEN r.out ELSE stocks
           /\ err' = r.err
           /\ pc' = IF r.err = "none" THEN "returned" ELSE "raised"
    /\ UNCHANGED <<prog, feed, watch_remnants, listed, prices, batches, calls,
                   product_list, cursor, campaign, server>>

NextStocks == SellerCreateStocks \/ MarketCreateStocks

SpecStocks == InitStocks /\ [][NextStocks]_vars

\* a stock payload entry's offer id and quantity, in either marketplace's format
EntryId(e) == IF "sku" \in DOMAIN e THEN e.sku ELSE e.offer_id

EntryQty(e) == IF "sku" \in DOMAIN e THEN e.items[1].count ELSE e.stock

InInventory(id) ==
    \E i \in 1..Len(watch_remnants) : PyStr(watch_remnants[i].Kod) = id

StocksReturned ==
    /\ prog \in {"seller.create_stocks", "market.create_stocks"}
    /\ pc = "returned"

\* C1: every known offer id that is the item code of no inventory record is in
\* the returned stock payload with quantity 0.
C1_ZeroFill ==
    StocksReturned =>
        \A k \in 1..Len(listed) :
            ~InInventory(listed[k]) =>
                \E j \in 1..Len(stocks) :
                    EntryId(stocks[j]) = listed[k] /\ EntryQty(stocks[j]) = 0

C1_Witness ==
    /\ StocksReturned
    /\ prog = "market.create_stocks"
    /\ Len(listed) = 2 /\ listed[1] # listed[2]
    /\ InInventory(listed[1]) /\ ~InInventory(listed[2])
    /\ \E j \in 1..Len(stocks) :
           EntryId(stocks[j]) = listed[2] /\ EntryQty(stocks[j]) = 0
    /\ \E j \in 1..Len(stocks) :
           EntryId(stocks[j]) = listed[1] /\ EntryQty(stocks[j]) = 100

\* C2 as claimed: the returned stock payload holds at most one entry per offer
\* id, so a matched offer id gets no additional zero-fill entry.
C2_AtMostOneEntry ==
    StocksReturned =>
        \A i, j \in 1..Len(stocks) :
            EntryId(stocks[i]) = EntryId(stocks[j]) => i = j

\* what the quantity rule is claimed to give for each quantity cell of the inputs
ExpectedStock(q) ==
    CASE q = [str |-> GT10] -> 100
      [] q = [str |-> <<"1">>] -> 0
      [] q = [int |-> 1] -> 0
      [] q = [int |-> 5] -> 5
      [] q = [str |-> <<"1", "2">>] -> 12
      [] q = [str |-> <<" ", "7">>] -> 7

\* record i is matched: fewer earlier records carry its code than the listing
\* holds occurrences of it
StockMatched(i) ==
    LET code == PyStr(watch_remnants[i].Kod)
    IN  Cardinality({k \in 1..(i - 1) : PyStr(watch_remnants[k].Kod) = code})
            < Cardinality({k \in 1..Len(listed) : listed[k] = code})

\* C8: every inventory record matched to a known offer id is emitted with
\* quantity 100 for ">10", 0 for "1" (also the number 1), and otherwise the
\* base-10 integer value of its quantity.
C8_QuantityRule ==
    StocksReturned =>
        \A i \in 1..Len(watch_remnants) :
            StockMatched(i) =>
                LET code == PyStr(watch_remnants[i].Kod)
                    nth == Cardinality({k \in 1..(i - 1) :
                                           PyStr(watch_remnants[k].Kod) = code})
                IN  \E j \in 1..Len(stocks) :
                        /\ EntryId(stocks[j]) = code
                        /\ Cardinality({m \in 1..(j - 1) :
                                           EntryId(stocks[m]) = code}) = nth
                        /\ EntryQty(stocks[j]) =
                               ExpectedStock(watch_remnants[i].Kolichestvo)

C8_Witness ==
    /\ StocksReturned
    /\ prog = "seller.create_stocks"
    /\ Len(watch_remnants) = 2
    /\ watch_remnants[1].Kolichestvo = [int |-> 1]
    /\ watch_remnants[2].Kolichestvo = [str |-> <<"1", "2">>]
    /\ StockMatched(1) /\ StockMatched(2)
    /\ Len(stocks) >= 2
    /\ EntryQty(stocks[1]) = 0 /\ EntryQty(stocks[2]) = 12

----------------------------------------------------------------------------
(* create_prices applied to bounded inputs *)

P_59 == <<"5", "9", ".", "0", " ", "r">>
P_none == <<"r", ".", "5">>
P_34 == <<"3", "r", "4">>
P_1 == <<"1", ".", "2", ".", "3">>

\* price cells: digits with a fraction and a suffix, no digit before the '.',
\* no '.', two '.'
PriceTexts == {P_59, P_none, P_34, P_1}

PriceRecords ==
    [Kod : Codes, Kolichestvo : {[int |-> 5]}, Tsena : {[str |-> t] : t \in PriceTexts}]

InitPrices ==
    /\ prog \in {"seller.create_prices", "market.create_prices"}
    /\ pc = "call"
    /\ feed = <<>>
    /\ watch_remnants \in BoundedSeq(PriceRecords, MaxRemnants)
    /\ listed \in BoundedSeq(OfferIds, MaxOffers)
    /\ offer_ids = listed
    /\ stocks = <<>>
    /\ prices = <<>>
    /\ batches = NoBatches
    /\ calls = <<>>
    /\ product_list = <<>>
    /\ cursor = ""
    /\ campaign = "none"
    /\ server = NoServer
    /\ err = "none"

SellerCreatePrices ==
    /\ prog = "seller.create_prices" /\ pc = "call"
    /\ LET r == seller_create_prices(watch_remnants, offer_ids)
       IN  /\ offer_ids' = r.ids
           /\ prices' = IF r.err = "none" THEN r.out ELSE prices
           /\ err' = r.err
           /\ pc' = IF r.err = "none" THEN "returned" ELSE "raised"
    /\ UNCHANGED <<prog, feed, watch_remnants, listed, stocks, batches, calls,
                   product_list, cursor, campaign, server>>

MarketCreatePrices ==
    /\ prog = "market.create_prices" /\ pc = "call"
    /\ LET r == market_create_prices(watch_remnants, offer_ids)
       IN  /\ offer_ids' = r.ids
           /\ prices' = IF r.err = "none" THEN r.out ELSE prices
           /\ err' = r.err
           /\ pc' = IF r.err = "none" THEN "returned" ELSE "raised"
    /\ UNCHANGED <<prog, feed, watch_remnants, listed, stocks, batches, calls,
                   product_list, cursor, campaign, server>>

NextPrices == SellerCreatePrices \/ MarketCreatePrices

SpecPrices == InitPrices /\ [][NextPrices]_vars

PriceMatched(w) == InList(PyStr(w.Kod), listed)

\* the records create_prices builds an entry for, in input order
PriceMatchedRecords == SelectSeq(watch_remnants, PriceMatched)

\* the digits before the first '.', for each price text of the inputs
ExpectedDigits(t) ==
    CASE t = P_59 -> <<"5", "9">>
      [] t = P_none -> <<>>
      [] t = P_34 -> <<"3", "4">>
      [] t = P_1 -> <<"1">>

ExpectedValue(t) ==
    CASE t = P_59 -> 59
      [] t = P_34 -> 34
      [] t = P_1 -> 1

PricesCalled ==
    /\ prog \in {"seller.create_prices", "market.create_prices"}
    /\ pc # "call"

SomeMatchedWithoutDigits ==
    \E i \in 1..Len(watch_remnants) :
        PriceMatched(watch_remnants[i]) /\ watch_remnants[i].Tsena.str = P_none

----------------------------------------------------------------------------
(* Chunked upload of a stock payload: market.upload_stocks from line 299 on,
   and the same loop in market.main *)

\* where control goes when the upload loop ends
AfterUpload == IF prog = "market.main" THEN "prices" ELSE "returned"

\* where control goes when an exception leaves the routine: main's except
\* clauses end the run; a routine checked on its own raises to its caller
AfterRaise == IF prog \in {"market.main", "seller.main"} THEN "done" ELSE "raised"

\* for ... in list(divide(stocks, n)): the generator is run to its end first
ChunkPayload ==
    /\ pc = "divide"
    /\ LET b == divide(stocks, batches.n)
       IN  /\ batches' = [batches EXCEPT !.list = b, !.next = 1]
           /\ pc' = IF Len(b) = 0 THEN AfterUpload ELSE "upload"
    /\ UNCHANGED <<prog, feed, watch_remnants, listed, offer_ids, stocks, prices,
                   calls, product_list, cursor, campaign, server, err>>

\* update_stocks(some_stock, ...) answered with a success status
UpdateStocksOk ==
    /\ pc = "upload"
    /\ batches.next <= Len(batches.list)
    /\ calls' = Append(calls, [kind |-> "update_stocks", campaign |-> campaign,
                               batch |-> batches.list[batches.next],
                               status |-> "ok"])
    /\ batches' = [batches EXCEPT !.next = @ + 1]
    /\ pc' = IF batches.next = Len(batches.list) THEN AfterUpload ELSE "upload"
    /\ UNCHANGED <<prog, feed, watch_remnants, listed, offer_ids, stocks, prices,
                   product_list, cursor, campaign, server, err>>

\* UpdateStocksFail with the exception swallowed inside the loop: the failure is
\* logged and the loop goes on to the next batch
UpdateStocksFailSwallowed ==
    /\ pc = "upload"
    /\ batches.next <= Len(batches.list)
    /\ \E e \in {"HTTPError", "ConnectionError", "ReadTimeout"} :
           calls' = Append(calls, [kind |-> "update_stocks",
                                   campaign |-> campaign,
                                   batch |-> batches.list[batches.next],
                                   status |-> e])
    /\ batches' = [batches EXCEPT !.next = @ + 1]
    /\ pc' = IF batches.next = Len(batches.list) THEN AfterUpload ELSE "upload"
    /\ UNCHANGED <<prog, feed, watch_remnants, listed, offer_ids, stocks, prices,
                   product_list, cursor, campaign, server, err>>

\* update_stocks(some_stock, ...) failing: raise_for_status or a transport error
UpdateStocksFail ==
    /\ pc = "upload"
    /\ batches.next <= Len(batches.list)
    /\ \E e \in {"HTTPError", "ConnectionError", "ReadTimeout"} :
           /\ calls' = Append(calls, [kind |-> "update_stocks",
                                      campaign |-> campaign,
                                      batch |-> batches.list[batches.next],
                                      status |-> e])
           /\ err' = e
    /\ pc' = AfterRaise
    /\ UNCHANGED <<prog, feed, watch_remnants, listed, offer_ids, stocks, prices,
                   batches, product_list, cursor, campaign, server>>

PayloadEntries ==
    {market_stock_entry(A_, Warehouse, 5, Date),
     market_stock_entry(B_, Warehouse, 0, Date)}

InitUpload ==
    /\ prog = "market.upload_stocks"
    /\ pc = "divide"
    /\ feed = <<>>
    /\ watch_remnants = <<>>
    /\ listed = <<>>
    /\ offer_ids = <<>>
    /\ stocks \in BoundedSeq(PayloadEntries, MaxPayload)
    /\ prices = <<>>
    /\ \E n \in 1..MaxBatch : batches = [list |-> <<>>, n |-> n, next |-> 1]
    /\ calls = <<>>
    /\ product_list = <<>>
    /\ cursor = ""
    /\ campaign = "FBS"
    /\ server = NoServer
    /\ err = "none"

NextUpload == ChunkPayload \/ UpdateStocksOk \/ UpdateStocksFail

SpecUpload == InitUpload /\ [][NextUpload]_vars

RECURSIVE SentSoFar(_)
SentSoFar(k) == IF k = 0 THEN <<>> ELSE SentSoFar(k - 1) \o calls[k].batch

\* C10: the k-th update call carries the k-th contiguous slice of the payload,
\* of n entries except possibly the last (1 to n); when every call succeeds
\* exactly ceil(L/n) calls are issued and the batches, concatenated in call
\* order, are the payload; the empty payload issues no call.
C10_ChunkedUpload ==
    prog = "market.upload_stocks" =>
        LET L == Len(stocks)
            n == batches.n
        IN  /\ \A k \in 1..Len(calls) :
                   /\ calls[k].kind = "update_stocks"
                   /\ (k - 1) * n < L
                   /\ calls[k].batch =
                          [i \in 1..(IF k * n <= L THEN n ELSE L - (k - 1) * n)
                              |-> stocks[(k - 1) * n + i]]
                   /\ k < Len(calls) => calls[k].status = "ok"
            /\ pc = "returned" =>
                   /\ Len(calls) = (L + n - 1) \div n
                   /\ SentSoFar(Len(calls)) = stocks
                   /\ \A k \in 1..Len(calls) : calls[k].status = "ok"

C10_Witness ==
    /\ prog = "market.upload_stocks" /\ pc = "returned"
    /\ Len(stocks) = 3 /\ batches.n = 2
    /\ stocks[1] # stocks[2]
    /\ Len(calls) = 2
    /\ Len(calls[1].batch) = 2 /\ Len(calls[2].batch) = 1

----------------------------------------------------------------------------
(* Offer listing: get_offer_ids and get_product_list of both scripts *)

\* a response without nextPageToken: dict.get gives None
Absent == "<absent>"

Tokens == {"", Absent, "t1"}

ListingIds == {A_, B_}

\* the pages a Yandex Market campaign may answer with
YandexPages ==
    [items : BoundedSeq({[offer |-> [shopSku |-> id]] : id \in ListingIds},
                        MaxPageItems),
     token : Tokens]

\* the pages Ozon may answer with: total is the size of the page or one more
OzonPages ==
    UNION {[items : {it}, total : {Len(it), Len(it) + 1}, last_id : {"", "t1"}] :
               it \in BoundedSeq({[offer_id |-> id] : id \in ListingIds},
                                 MaxPageItems)}

\* requests of the listing of campaign c issued so far
ListCalls(c) ==
    Cardinality({k \in 1..Len(calls) :
                    calls[k].kind = "list" /\ calls[k].campaign = c})

\* where control goes when get_offer_ids returns
AfterListing == IF prog = "market.main" THEN "stocks" ELSE "returned"

\* market.get_offer_ids leaving its loop on None only
market_listing_done_on_none(page) == page = Absent

\* market.get_offer_ids: if not page: break
market_listing_done(page) == page \in {"", Absent}

\* market.get_offer_ids: the shopSku of every accumulated item
market_offer_ids(items) == [k \in 1..Len(items) |-> items[k].offer.shopSku]

\* one turn of the loop of market.get_offer_ids, the request answered with a
\* success status; when the loop ends the offer ids are returned
MarketListOk ==
    /\ prog \in {"market.main", "market.get_offer_ids"}
    /\ pc = "list"
    /\ ListCalls(campaign) < Len(server[campaign])
    /\ LET some_prod == server[campaign][ListCalls(campaign) + 1]
           all == product_list \o some_prod.items
       IN  /\ calls' = Append(calls, [kind |-> "list", campaign |-> campaign,
                                      cursor |-> cursor, status |-> "ok"])
           /\ product_list' = all
           /\ cursor' = some_prod.token
           /\ IF market_listing_done(some_prod.token)
              THEN /\ offer_ids' = market_offer_ids(all)
                   /\ listed' = market_offer_ids(all)
                   /\ pc' = AfterListing
              ELSE UNCHANGED <<offer_ids, listed, pc>>
    /\ UNCHANGED <<prog, feed, watch_remnants, stocks, prices, batches, campaign,
                   server, err>>

\* the request of market.get_product_list failing
MarketListFail ==
    /\ prog \in {"market.main", "market.get_offer_ids"}
    /\ pc = "list"
    /\ ListCalls(campaign) < Len(server[campaign])
    /\ \E e \in {"HTTPError", "ConnectionError", "ReadTimeout"} :
           /\ calls' = Append(calls, [kind |-> "list", campaign |-> campaign,
                                      cursor |-> cursor, status |-> e])
           /\ err' = e
    /\ pc' = AfterRaise
    /\ UNCHANGED <<prog, feed, watch_remnants, listed, offer_ids, stocks, prices,
                   batches, product_list, cursor, campaign, server>>

\* seller.get_offer_ids: if total == len(product_list): break
seller_listing_done(total, items) == total = Len(items)

\* seller.get_product_list answered with a success status: line 60 binds
\* respons_oebject and line 61 reads response_object, which no scope defines, so
\* the call raises NameError; some_prod is never bound and lines 87-95 of
\* get_offer_ids are never reached
SellerListOk ==
    /\ prog \in {"seller.main", "seller.get_offer_ids"}
    /\ pc = "list"
    /\ ListCalls(campaign) < Len(server[campaign])
    /\ calls' = Append(calls, [kind |-> "list", campaign |-> campaign,
                               cursor |-> cursor, status |-> "ok"])
    /\ err' = "NameError"
    /\ pc' = AfterRaise
    /\ UNCHANGED <<prog, feed, watch_remnants, listed, offer_ids, stocks, prices,
                   batches, product_list, cursor, campaign, server>>

\* the request of seller.get_product_list failing
SellerListFail ==
    /\ prog \in {"seller.main", "seller.get_offer_ids"}
    /\ pc = "list"
    /\ ListCalls(campaign) < Len(server[campaign])
    /\ \E e \in {"HTTPError", "ConnectionError", "ReadTimeout"} :
           /\ calls' = Append(calls, [kind |-> "list", campaign |-> campaign,
                                      cursor |-> cursor, status |-> e])
           /\ err' = e
    /\ pc' = AfterRaise
    /\ UNCHANGED <<prog, feed, watch_remnants, listed, offer_ids, stocks, prices,
                   batches, product_list, cursor, campaign, server>>

InitListing ==
    /\ prog \in {"market.get_offer_ids", "seller.get_offer_ids"}
    /\ pc = "list"
    /\ feed = <<>>
    /\ watch_remnants = <<>>
    /\ listed = <<>>
    /\ offer_ids = <<>>
    /\ stocks = <<>>
    /\ prices = <<>>
    /\ batches = NoBatches
    /\ calls = <<>>
    /\ product_list = <<>>
    /\ cursor = ""
    /\ campaign = IF prog = "market.get_offer_ids" THEN "FBS" ELSE "OZON"
    /\ \E pages \in BoundedSeq(IF prog = "market.get_offer_ids"
                               THEN YandexPages ELSE OzonPages, MaxPages) :
           server = [NoServer EXCEPT ![campaign] = pages]
    /\ err = "none"

NextListing == MarketListOk \/ MarketListFail \/ SellerListOk \/ SellerListFail

SpecListing == InitListing /\ [][NextListing]_vars

ListingRun == prog \in {"market.get_offer_ids", "seller.get_offer_ids"}

AllCallsOk == \A k \in 1..Len(calls) : calls[k].status = "ok"

\* the items of the first k pages of the campaign, in page order
RECURSIVE FetchedItems(_)
FetchedItems(k) ==
    IF k = 0 THEN <<>> ELSE FetchedItems(k - 1) \o server[campaign][k].items

\* the offer identifiers of the items of the fetched pages, in page order
FetchedIds ==
    LET items == FetchedItems(Len(calls))
    IN  [k \in 1..Len(items) |->
            IF "offer" \in DOMAIN items[k]
            THEN items[k].offer.shopSku ELSE items[k].offer_id]

\* C5 as claimed: when every list-offers call returns a success status the
\* listing returns, not raises, and returns the offer identifiers of all items
\* of all fetched pages in page order.
C5_ListingReturnsAll ==
    (ListingRun /\ pc \in {"returned", "raised"} /\ AllCallsOk) =>
        pc = "returned" /\ listed = FetchedIds

\* the k-th response meets the marketplace's termination condition
TerminatingResponse(k) ==
    IF prog = "market.get_offer_ids"
    THEN server[campaign][k].token \in {"", Absent}
    ELSE seller_listing_done(server[campaign][k].total, FetchedItems(k))

\* C6 as claimed: no request follows the first response that meets the
\* termination condition, and once a response meets it the listing returns.
C6_ListingTerminates ==
    ListingRun =>
        /\ \A k \in 1..(Len(calls) - 1) : ~TerminatingResponse(k)
        /\ (Len(calls) >= 1 /\ AllCallsOk /\ TerminatingResponse(Len(calls)))
               => pc = "returned"

\* the cursor the k-th response handed back
ResponseCursor(k) ==
    IF prog = "market.get_offer_ids"
    THEN server[campaign][k].token ELSE server[campaign][k].last_id

\* C7: within one offer listing only the first request carries the empty cursor;
\* every later request carries the non-empty cursor of the previous response.
C7_OneInitialCursor ==
    ListingRun =>
        \A k \in 1..Len(calls) :
            IF k = 1 THEN calls[k].cursor = ""
            ELSE /\ calls[k].cursor = ResponseCursor(k - 1)
                 /\ calls[k].cursor \notin {"", Absent}

C7_Witness ==
    /\ prog = "market.get_offer_ids" /\ pc = "returned"
    /\ Len(calls) = 2
    /\ calls[1].cursor = "" /\ calls[2].cursor = "t1"
    /\ Len(listed) = 2

----------------------------------------------------------------------------
(* The runs of seller.main and market.main *)

\* market.main: divide(stocks, 2000)
MarketStocksLimit == 2000

\* market.main: warehouse_fbs_id / warehouse_dbs_id
WarehouseOf(c) == IF c = "FBS" THEN "WH_FBS" ELSE "WH_DBS"

\* the rows of the remote spreadsheet: a text code with ">10", a numeric code
\* with a numeric quantity, a text code with a malformed quantity
MainRecords ==
    {[Kod |-> [str |-> A_], Kolichestvo |-> [str |-> GT10], Tsena |-> [str |-> P_59]],
     [Kod |-> [int |-> 7], Kolichestvo |-> [int |-> 5], Tsena |-> [str |-> P_34]],
     [Kod |-> [str |-> B_], Kolichestvo |-> [str |-> <<"x">>], Tsena |-> [str |-> P_59]]}

YandexPage(ids, token) ==
    [items |-> [k \in 1..Len(ids) |-> [offer |-> [shopSku |-> ids[k]]]],
     token |-> token]

\* the catalogues a campaign answers with in the runs checked
MainCatalogs ==
    {<<YandexPage(<<A_>>, "")>>,
     <<YandexPage(<<A_>>, "t1"), YandexPage(<<B_>>, Absent)>>,
     <<YandexPage(<<Seven, Seven>>, "")>>,
     <<YandexPage(<<>>, Absent)>>}

OzonPage(ids, total, last_id) ==
    [items |-> [k \in 1..Len(ids) |-> [offer_id |-> ids[k]]],
     total |-> total, last_id |-> last_id]

OzonCatalogs ==
    {<<OzonPage(<<A_>>, 1, "t1")>>,
     <<OzonPage(<<A_>>, 2, "t1"), OzonPage(<<Seven>>, 2, "t2")>>,
     <<OzonPage(<<>>, 0, "")>>}

Init ==
    /\ prog \in {"seller.main", "market.main"}
    /\ pc = IF prog = "seller.main" THEN "list" ELSE "download"
    /\ feed \in BoundedSeq(MainRecords, MaxRemnants)
    /\ watch_remnants = <<>>
    /\ listed = <<>>
    /\ offer_ids = <<>>
    /\ stocks = <<>>
    /\ prices = <<>>
    /\ batches = IF prog = "seller.main" THEN NoBatches
                 ELSE [list |-> <<>>, n |-> MarketStocksLimit, next |-> 1]
    /\ calls = <<>>
    /\ product_list = <<>>
    /\ cursor = ""
    /\ campaign = IF prog = "seller.main" THEN "OZON" ELSE "FBS"
    /\ IF prog = "seller.main"
       THEN \E o \in OzonCatalogs : server = [NoServer EXCEPT !["OZON"] = o]
       ELSE \E f \in MainCatalogs, d \in MainCatalogs :
                server = [NoServer EXCEPT !["FBS"] = f, !["DBS"] = d]
    /\ err = "none"

\* market.main line 315: download_stock() returns the parsed rows
MarketDownloadOk ==
    /\ prog = "market.main" /\ pc = "download"
    /\ watch_remnants' = feed
    /\ pc' = "list"
    /\ UNCHANGED <<prog, feed, listed, offer_ids, stocks, prices, batches, calls,
                   product_list, cursor, campaign, server, err>>

\* market.main line 315: download_stock() raises; the call is outside the try
\* block, so the exception leaves main
MarketDownloadFail ==
    /\ prog = "market.main" /\ pc = "download"
    /\ \E e \in {"HTTPError", "ConnectionError", "BadZipFile"} : err' = e
    /\ pc' = "crashed"
    /\ UNCHANGED <<prog, feed, watch_remnants, listed, offer_ids, stocks, prices,
                   batches, calls, product_list, cursor, campaign, server>>

\* market.main lines 320 and 329: stocks = create_stocks(...)
MarketMainCreateStocks ==
    /\ prog = "market.main" /\ pc = "stocks"
    /\ LET r == market_create_stocks(watch_remnants, offer_ids,
                                     WarehouseOf(campaign), Date)
       IN  /\ offer_ids' = r.ids
           /\ stocks' = IF r.err = "none" THEN r.out ELSE stocks
           /\ err' = r.err
           /\ pc' = IF r.err = "none" THEN "divide" ELSE AfterRaise
    /\ UNCHANGED <<prog, feed, watch_remnants, listed, prices, batches, calls,
                   product_list, cursor, campaign, server>>

\* market.main lines 324 and 333: upload_prices(...) is an async def called
\* without await, so the call only builds a coroutine object, which is dropped;
\* the body of upload_prices does not run.  After FBS, get_offer_ids starts
\* anew for DBS; after DBS the run ends.
MarketMainUploadPrices ==
    /\ prog = "market.main" /\ pc = "prices"
    /\ IF campaign = "FBS"
       THEN /\ campaign' = "DBS"
            /\ cursor' = ""
            /\ product_list' = <<>>
            /\ pc' = "list"
       ELSE /\ pc' = "done"
            /\ UNCHANGED <<campaign, cursor, product_list>>
    /\ UNCHANGED <<prog, feed, watch_remnants, listed, offer_ids, stocks, prices,
                   batches, calls, server, err>>

Next ==
    \/ SellerListOk \/ SellerListFail
    \/ MarketDownloadOk \/ MarketDownloadFail
    \/ MarketListOk \/ MarketListFail
    \/ MarketMainCreateStocks
    \/ ChunkPayload \/ UpdateStocksOk \/ UpdateStocksFail
    \/ MarketMainUploadPrices

Spec == Init /\ [][Next]_vars

\* the entries of the batches uploaded by calls of the given kind, in call order
RECURSIVE Uploaded(_, _)
Uploaded(kind, k) ==
    IF k = 0 THEN <<>>
    ELSE Uploaded(kind, k - 1)
             \o (IF calls[k].kind = kind /\ calls[k].status = "ok"
                 THEN calls[k].batch ELSE <<>>)

\* the offer ids of the pages fetched from Ozon
OzonFetchedIds ==
    LET items == FetchedItems(ListCalls("OZON"))
    IN  {items[k].offer_id : k \in 1..Len(items)}

\* C3 as claimed: in a run of seller.main in which every HTTP call succeeds,
\* every inventory record whose item code is a listed offer id has exactly one
\* entry in the uploaded stock batches and exactly one in the uploaded price
\* batches.
C3_OneStockAndPriceEntry ==
    (prog = "seller.main" /\ pc = "done" /\ AllCallsOk) =>
        \A i \in 1..Len(feed) :
            LET code == PyStr(feed[i].Kod)
                records == Cardinality({k \in 1..Len(feed) :
                                           PyStr(feed[k].Kod) = code})
                sent_stocks == Uploaded("update_stocks", Len(calls))
                sent_prices == Uploaded("update_price", Len(calls))
            IN  code \in OzonFetchedIds =>
                    /\ Cardinality({j \in 1..Len(sent_stocks) :
                                       sent_stocks[j].offer_id = code}) = records
                    /\ Cardinality({j \in 1..Len(sent_prices) :
                                       sent_prices[j].offer_id = code}) = records

\* the list-offers requests issued for campaign c with the initial page token
ListingsStarted(c) ==
    Cardinality({k \in 1..Len(calls) :
                    /\ calls[k].kind = "list" /\ calls[k].campaign = c
                    /\ calls[k].cursor = ""})

\* C4 as claimed: in a run of market.main in which every HTTP call succeeds,
\* upload_prices for FBS has issued its own offer listing before the first
\* list-offers request for DBS, and upload_prices for DBS has issued its own
\* before the run ends.
C4_UploadPricesRuns ==
    (prog = "market.main" /\ AllCallsOk) =>
        /\ ListCalls("DBS") >= 1 => ListingsStarted("FBS") >= 2
        /\ (pc = "done" /\ err = "none") => ListingsStarted("DBS") >= 2

----------------------------------------------------------------------------
(* Every routine above, each from its own initial states: the two main runs,
   and create_stocks, create_prices, the upload loop and get_offer_ids called
   on their own *)

InitRoutines == Init \/ InitStocks \/ InitPrices \/ InitUpload \/ InitListing

NextRoutines == Next \/ NextStocks \/ NextPrices

SpecRoutines == InitRoutines /\ [][NextRoutines]_vars

UploadRun == prog \in {"market.upload_stocks", "market.main", "seller.main"}

RunEnded == pc \in {"done", "raised", "crashed"}

\* C11: when the update call for a batch fails, it is the last request of the
\* run: no later batch is sent, the failed batch is not sent again and no
\* compensating call follows; the batches sent before it were accepted and the
\* run has ended with that error.
C11_FailStop ==
    UploadRun =>
        \A k \in 1..Len(calls) :
            (calls[k].kind = "update_stocks" /\ calls[k].status # "ok") =>
                /\ k = Len(calls)
                /\ RunEnded
                /\ err = calls[k].status
                /\ \A j \in 1..(k - 1) : calls[j].status = "ok"

C11_Witness ==
    /\ prog = "market.upload_stocks" /\ pc = "raised"
    /\ Len(batches.list) = 3
    /\ Len(calls) = 2
    /\ calls[1].status = "ok" /\ calls[1].batch = batches.list[1]
    /\ calls[2].status = "HTTPError" /\ calls[2].batch = batches.list[2]

MainRun == prog \in {"seller.main", "market.main"}

\* C12 as claimed: in a run of seller.main or market.main, an error raised by
\* any step (inventory fetch, offer listing, payload building, batch upload)
\* is caught by main, which ends the run normally: the error never leaves
\* main.
C12_SingleRecoveryPoint ==
    (MainRun /\ err # "none") => pc = "done"

\* the quantity cells of the inputs that are ">10", "1" or a base-10 integer
WellFormedQuantities ==
    {[str |-> GT10], [str |-> <<"1">>], [int |-> 1], [int |-> 5],
     [str |-> <<"1", "2">>], [str |-> <<" ", "7">>]}

Malformed(q) == q \notin WellFormedQuantities

AnyMalformed ==
    \E i \in 1..Len(watch_remnants) : Malformed(watch_remnants[i].Kolichestvo)

\* some record with a malformed quantity is matched to a known offer id
MatchedMalformed ==
    \E i \in 1..Len(watch_remnants) :
        StockMatched(i) /\ Malformed(watch_remnants[i].Kolichestvo)

StocksCalled ==
    /\ prog \in {"seller.create_stocks", "market.create_stocks"}
    /\ pc # "call"

\* market.main is past create_stocks for the current campaign
PastCreateStocks ==
    prog = "market.main" /\ pc \in {"divide", "upload", "prices"}

PriceEntryId(e) == IF "id" \in DOMAIN e THEN e.id ELSE e.offer_id

PricesReturned == PricesCalled /\ pc = "returned"

\* C14: the payload create_prices returns holds exactly one entry, in input
\* order, for each record whose item code, as a string, is in the offer-id
\* list, and none for any other record; the offer-id list is the same after
\* the call as before it; a record with an unknown code raises nothing: the
\* call fails only on the price of a record with a known code.
C14_OneEntryPerKnownRecord ==
    PricesCalled =>
        /\ offer_ids = listed
        /\ err # "none" => SomeMatchedWithoutDigits
        /\ pc = "returned" =>
               /\ Len(prices) = Len(PriceMatchedRecords)
               /\ \A k \in 1..Len(prices) :
                      PriceEntryId(prices[k]) = PyStr(PriceMatchedRecords[k].Kod)

C14_Witness ==
    /\ PricesReturned /\ prog = "market.create_prices"
    /\ listed = <<A_, B_>>
    /\ Len(watch_remnants) = 2
    /\ watch_remnants[1].Kod = [int |-> 7]
    /\ watch_remnants[2].Kod = [str |-> A_]
    /\ Len(prices) = 1 /\ PriceEntryId(prices[1]) = A_

====
